---- MODULE Spec2Model ----
(***************************************************************************)
(* Model of macros/grab_micro_gds.py: the four-source pipeline that        *)
(* downloads a tt_submission artifact, unpacks it, copies the .gds/.lef/.v *)
(* files, renames the top cell, the LEF macro and the Verilog module, and  *)
(* cleans up.                                                              *)
(*                                                                         *)
(* Text is modelled at character level: a line is a sequence of one-       *)
(* character strings (without its line terminator, which every operation   *)
(* of the script carries through untouched); a text file is a sequence of  *)
(* lines.  A GDS file is a sequence of cell records whose references are   *)
(* stored by the NAME of the referenced cell, as in the GDSII format; the  *)
(* in-memory library holds references by cell identity (position).         *)
(***************************************************************************)
EXTENDS Integers, Sequences, FiniteSets, TLC

VARIABLES pc, i, exc, zipf, dirf, gdsf, leff, vf, fetched, dl, gdsT, lefT, vT

vars == <<pc, i, exc, zipf, dirf, gdsf, leff, vf, fetched, dl, gdsT, lefT, vT>>

(***************************************************************************)
(* Bounds of the model.                                                    *)
(***************************************************************************)
MaxRuns == 2
MaxArtifacts == 1
MaxCells == 2
MaxRefs == 1
MaxApply == 2
MaxLefLines == 3
MaxVLines == 3

(***************************************************************************)
(* Program constants.                                                      *)
(***************************************************************************)
NumSources == 4
HTTP_OK == 200

\* A path of the file system: absent, or present with its content.
NoFile == [exists |-> FALSE]
File(d) == [exists |-> TRUE, data |-> d]

SeqsUpTo(S, n) == UNION {[1..k -> S] : k \in 0..n}

(***************************************************************************)
(* Characters and the string methods the script uses.                      *)
(***************************************************************************)
SpaceChars == {" ", "\t"}
PunctChars == {"$", "(", ")", ";"}

IsSpace(c) == c \in SpaceChars
\* \w of Python's re: letters, digits and the underscore.
IsWord(c) == c \notin (SpaceChars \cup PunctChars)

KW_MACRO == <<"M", "A", "C", "R", "O">>
KW_END == <<"E", "N", "D">>
KW_FOREIGN == <<"F", "O", "R", "E", "I", "G", "N">>
KW_module == <<"m", "o", "d", "u", "l", "e">>
SP == <<" ">>

RECURSIVE lstrip(_)
lstrip(s) == IF s # <<>> /\ IsSpace(Head(s)) THEN lstrip(Tail(s)) ELSE s

RECURSIVE rstrip(_)
rstrip(s) ==
  IF s # <<>> /\ IsSpace(s[Len(s)]) THEN rstrip(SubSeq(s, 1, Len(s) - 1)) ELSE s

strip(s) == rstrip(lstrip(s))

startswith(s, p) == Len(s) >= Len(p) /\ SubSeq(s, 1, Len(p)) = p

\* Length of the longest prefix of s made of characters satisfying the class.
RECURSIVE SpanSpace(_)
SpanSpace(s) == IF s # <<>> /\ IsSpace(Head(s)) THEN 1 + SpanSpace(Tail(s)) ELSE 0

RECURSIVE SpanWord(_)
SpanWord(s) == IF s # <<>> /\ IsWord(Head(s)) THEN 1 + SpanWord(Tail(s)) ELSE 0

RECURSIVE SpanToken(_)
SpanToken(s) == IF s # <<>> /\ ~IsSpace(Head(s)) THEN 1 + SpanToken(Tail(s)) ELSE 0

\* str.split(): the maximal runs of non-whitespace characters.
RECURSIVE split(_)
split(s) ==
  LET t == lstrip(s)
      n == SpanToken(t)
  IN IF t = <<>> THEN <<>>
     ELSE <<SubSeq(t, 1, n)>> \o split(SubSeq(t, n + 1, Len(t)))

\* Length of the match of  kw\s+\w+  at the start of s, 0 when there is none.
MatchLen(kw, s) ==
  IF ~startswith(s, kw) THEN 0
  ELSE LET r == SubSeq(s, Len(kw) + 1, Len(s))
           ns == SpanSpace(r)
           nw == SpanWord(SubSeq(r, ns + 1, Len(r)))
       IN IF ns >= 1 /\ nw >= 1 THEN Len(kw) + ns + nw ELSE 0

\* re.sub(kw\s+\w+, "kw new_name", s): every non-overlapping match, left to right.
RECURSIVE re_sub(_, _, _)
re_sub(kw, new_name, s) ==
  IF s = <<>> THEN <<>>
  ELSE LET m == MatchLen(kw, s)
       IN IF m > 0
          THEN kw \o SP \o new_name \o re_sub(kw, new_name, SubSeq(s, m + 1, Len(s)))
          ELSE <<Head(s)>> \o re_sub(kw, new_name, Tail(s))

(***************************************************************************)
(* The four hardcoded target names tt_um_micro1 .. tt_um_micro4.           *)
(***************************************************************************)
top_gds_name(k) ==
  <<"t", "t", "_", "u", "m", "_", "m", "i", "c", "r", "o">> \o <<(<<"1", "2", "3", "4">>)[k]>>

(***************************************************************************)
(* rename_verilog_module: every line whose stripped text starts with       *)
(* "module " goes through the substitution; all lines are written.         *)
(***************************************************************************)
VerilogLine(line, new_module_name) ==
  IF startswith(strip(line), KW_module \o SP)
  THEN re_sub(KW_module, new_module_name, line)
  ELSE line

rename_verilog_module(lines, new_module_name) ==
  [k \in 1..Len(lines) |-> VerilogLine(lines[k], new_module_name)]

(***************************************************************************)
(* update_lef_file.  The output file is opened for writing after the input *)
(* was read, so a failure in the loop leaves the lines written so far.     *)
(* The result is [out |-> lines written, err |-> "none" or the exception]. *)
(***************************************************************************)
\* One iteration of the loop: [old_name, line, err].
LefLine(line, old_name, new_name) ==
  LET isMacro == startswith(strip(line), KW_MACRO \o SP)
      old1 == IF isMacro THEN split(line)[2] ELSE old_name
      line1 == IF isMacro THEN re_sub(KW_MACRO, new_name, line) ELSE line
      isEnd == startswith(strip(line1), KW_END \o SP)
      line2 == IF isEnd /\ split(line1)[2] = old1
               THEN re_sub(KW_END, new_name, line1) ELSE line1
      isForeign == startswith(strip(line2), KW_FOREIGN)
  IN IF isForeign /\ Len(split(line2)) < 2
     THEN [old_name |-> old1, line |-> line2, err |-> "IndexError"]
     ELSE [old_name |-> old1,
           line |-> IF isForeign /\ split(line2)[2] = old1
                    THEN re_sub(KW_FOREIGN, new_name, line2) ELSE line2,
           err |-> "none"]

RECURSIVE LefLoop(_, _, _, _)
LefLoop(lines, old_name, new_name, written) ==
  IF lines = <<>> THEN [out |-> written, err |-> "none"]
  ELSE LET r == LefLine(Head(lines), old_name, new_name)
       IN IF r.err # "none" THEN [out |-> written, err |-> r.err]
          ELSE LefLoop(Tail(lines), r.old_name, new_name, Append(written, r.line))

update_lef_file(lines, new_name) == LefLoop(lines, <<>>, new_name, <<>>)

(***************************************************************************)
(* GDS.  A file is a sequence of cell records [name, shapes, refs] with    *)
(* refs a sequence of cell NAMES.  gdstk.read_gds resolves every reference *)
(* to a cell of the library (the last cell carrying that name);            *)
(* write_gds stores, for every reference, the current name of the cell it  *)
(* points to.                                                              *)
(***************************************************************************)
LastNamed(cells, n) ==
  CHOOSE k \in DOMAIN cells :
    cells[k].name = n /\ \A j \in DOMAIN cells : j > k => cells[j].name # n

read_gds(file) ==
  [k \in DOMAIN file |->
     [name |-> file[k].name, shapes |-> file[k].shapes,
      refs |-> [r \in DOMAIN file[k].refs |-> LastNamed(file, file[k].refs[r])]]]

write_gds(lib) ==
  [k \in DOMAIN lib |->
     [name |-> lib[k].name, shapes |-> lib[k].shapes,
      refs |-> [r \in DOMAIN lib[k].refs |-> lib[lib[k].refs[r]].name]]]

\* The elements of a finite set of integers in increasing order.
RECURSIVE Sorted(_)
Sorted(S) ==
  IF S = {} THEN <<>>
  ELSE LET m == CHOOSE x \in S : \A y \in S : x <= y
       IN <<m>> \o Sorted(S \ {m})

\* {ref.cell.name for cell in lib.cells for ref in cell.references}
referenced_cells(lib) ==
  UNION {{lib[lib[c].refs[r]].name : r \in DOMAIN lib[c].refs} : c \in DOMAIN lib}

\* all_cells is a dict keyed by name: a key keeps the position of its first
\* insertion and the value of its last.  top_cells lists the values whose key
\* is in no reference, in key order.
top_cells_every_cell(lib) == Sorted(DOMAIN lib)

top_cells(lib) ==
  LET keys == {k \in DOMAIN lib : \A j \in 1..(k - 1) : lib[j].name # lib[k].name}
      tops == Sorted({k \in keys : lib[k].name \notin referenced_cells(lib)})
  IN [t \in DOMAIN tops |-> LastNamed(lib, lib[tops[t]].name)]

\* top_cell = top_cells[0]
select_last(tops) == tops[Len(tops)]

select_top(tops) == tops[1]

\* top_cell.name = new_top_name
set_name(lib, top, new_top_name) == [lib EXCEPT ![top].name = new_top_name]

\* The whole call.  out is the file written (NoFile when the call raised
\* before write_gds), lib the cells of the library at the end of the call.
rename_top_cell(file, new_top_name) ==
  LET lib == read_gds(file)
      tops == top_cells(lib)
  IN IF tops = <<>>
     THEN [err |-> "ValueError", out |-> NoFile, sel |-> 0, lib0 |-> lib, lib1 |-> lib]
     ELSE LET top == select_top(tops)
              new_lib == set_name(lib, top, new_top_name)
          IN [err |-> "none", out |-> File(write_gds(new_lib)), sel |-> top,
              lib0 |-> lib, lib1 |-> new_lib]

(***************************************************************************)
(* download_tt_submission_artifact against a remote repository            *)
(* [url_ok, runs_status, runs], a run being [status, artifacts] (the       *)
(* status of listing its artifacts) and an artifact [name, status] (the    *)
(* status of downloading its archive).  The result is [ret, saved, trace]: *)
(* the return value, whether output_filename was written, and the status   *)
(* codes of the requests made, in order.                                   *)
(***************************************************************************)
ARTIFACT_NAME == "tt_submission"

\* Index of the first artifact named tt_submission, 0 when there is none.
FirstSubmission(artifacts) ==
  LET S == {a \in DOMAIN artifacts : artifacts[a].name = ARTIFACT_NAME}
  IN IF S = {} THEN 0 ELSE CHOOSE a \in S : \A b \in S : a <= b

\* The loop with `continue` in place of `return False` after a failed download.
RECURSIVE RunsLoop_continue(_, _)
RunsLoop_continue(runs, trace) ==
  IF runs = <<>> THEN [ret |-> FALSE, saved |-> FALSE, trace |-> trace]
  ELSE LET run == Head(runs)
           t1 == Append(trace, run.status)
           a == FirstSubmission(run.artifacts)
       IN IF run.status # HTTP_OK THEN RunsLoop_continue(Tail(runs), t1)
          ELSE IF a = 0 THEN RunsLoop_continue(Tail(runs), t1)
          ELSE LET t2 == Append(t1, run.artifacts[a].status)
               IN IF run.artifacts[a].status = HTTP_OK
                  THEN [ret |-> TRUE, saved |-> TRUE, trace |-> t2]
                  ELSE RunsLoop_continue(Tail(runs), t2)

\* for run in runs: a failed listing skips the run; the first artifact named
\* tt_submission is downloaded and the call returns on its status.
RECURSIVE RunsLoop(_, _)
RunsLoop(runs, trace) ==
  IF runs = <<>> THEN [ret |-> FALSE, saved |-> FALSE, trace |-> trace]
  ELSE LET run == Head(runs)
           t1 == Append(trace, run.status)
           a == FirstSubmission(run.artifacts)
       IN IF run.status # HTTP_OK THEN RunsLoop(Tail(runs), t1)
          ELSE IF a = 0 THEN RunsLoop(Tail(runs), t1)
          ELSE LET t2 == Append(t1, run.artifacts[a].status)
               IN IF run.artifacts[a].status = HTTP_OK
                  THEN [ret |-> TRUE, saved |-> TRUE, trace |-> t2]
                  ELSE [ret |-> FALSE, saved |-> FALSE, trace |-> t2]

download_tt_submission_artifact(remote) ==
  IF ~remote.url_ok THEN [ret |-> FALSE, saved |-> FALSE, trace |-> <<>>]
  ELSE IF remote.runs_status # HTTP_OK
  THEN [ret |-> FALSE, saved |-> FALSE, trace |-> <<remote.runs_status>>]
  ELSE RunsLoop(remote.runs, <<remote.runs_status>>)

(***************************************************************************)
(* Input spaces.                                                           *)
(***************************************************************************)
\* The success status and one non-success status.
StatusCodes == {HTTP_OK, 404}
ArtifactNames == {ARTIFACT_NAME, "other"}
Artifacts == [name : ArtifactNames, status : StatusCodes]
Runs == [status : StatusCodes, artifacts : SeqsUpTo(Artifacts, MaxArtifacts)]
Remotes ==
  {[url_ok |-> FALSE, runs_status |-> HTTP_OK, runs |-> <<>>],
   [url_ok |-> TRUE, runs_status |-> 404, runs |-> <<>>]}
  \cup {[url_ok |-> TRUE, runs_status |-> HTTP_OK, runs |-> rs] : rs \in SeqsUpTo(Runs, MaxRuns)}

NameA == <<"a">>
NameB == <<"b">>
NameAB == <<"a", "$", "b">>

\* GDS files: distinct cell names, every reference to a cell of the file.
CellNames == {NameA, NameB, top_gds_name(1)}
ShapeCounts == {0, 2}
NameSeqs ==
  {ns \in SeqsUpTo(CellNames, MaxCells) :
     ns # <<>> /\ \A x, y \in DOMAIN ns : x # y => ns[x] # ns[y]}
CellBodies(ns) ==
  [shapes : ShapeCounts, refs : SeqsUpTo({ns[k] : k \in DOMAIN ns}, MaxRefs)]
GdsFile(ns, b) ==
  [k \in DOMAIN ns |-> [name |-> ns[k], shapes |-> b[k].shapes, refs |-> b[k].refs]]

KW_PIN == <<"P", "I", "N">>
LefNames == {NameA, NameB, NameAB}
LefLines ==
  {kw \o SP \o n : kw \in {KW_MACRO, KW_END, KW_FOREIGN, KW_PIN}, n \in LefNames}
  \cup {SP \o KW_MACRO \o SP \o SP \o NameA,
        SP \o SP \o KW_END \o SP \o NameA,
        KW_FOREIGN \o SP \o NameA \o SP \o <<"0">> \o SP \o <<";">>,
        KW_FOREIGN,
        KW_END}
LefFiles == SeqsUpTo(LefLines, MaxLefLines) \ {<<>>}

KW_endmodule == <<"e", "n", "d", "m", "o", "d", "u", "l", "e">>
VerilogLines ==
  {KW_module \o SP \o NameA \o SP \o <<"(", "x", ")", ";">>,
   KW_module \o SP \o NameB \o <<";">>,
   SP \o SP \o KW_module \o SP \o SP \o NameA \o <<";">>,
   KW_module \o SP \o NameAB \o <<";">>,
   <<"w", "i", "r", "e">> \o SP \o NameA \o <<";">>,
   KW_endmodule}
VerilogFiles == SeqsUpTo(VerilogLines, MaxVLines) \ {<<>>}

\* Archives the pipeline may download: the tt_submission directory may be
\* missing, as may each of the three files.
GdsGood ==
  <<[name |-> NameB, shapes |-> 2, refs |-> <<>>],
    [name |-> NameA, shapes |-> 0, refs |-> <<NameB>>]>>
GdsCyclic ==
  <<[name |-> NameA, shapes |-> 2, refs |-> <<NameB>>],
    [name |-> NameB, shapes |-> 0, refs |-> <<NameA>>]>>
LefGood ==
  <<KW_MACRO \o SP \o NameA,
    KW_FOREIGN \o SP \o NameA \o SP \o <<"0">> \o SP \o <<";">>,
    KW_END \o SP \o NameA>>
LefBareForeign == <<KW_MACRO \o SP \o NameA, KW_FOREIGN, KW_END \o SP \o NameA>>
VGood == <<KW_module \o SP \o NameA \o SP \o <<"(", "x", ")", ";">>, KW_endmodule>>
Archives ==
  [sub : BOOLEAN, gds : {NoFile, File(GdsGood), File(GdsCyclic)},
   lef : {NoFile, File(LefGood), File(LefBareForeign)}, v : {NoFile, File(VGood)}]

Sources == 1..NumSources

(***************************************************************************)
(* State.  pc, i: the position of the module-level loop, exc the uncaught  *)
(* exception that ended it; zipf, dirf: the archive <name>.zip and the     *)
(* directory <name>/ of each source; gdsf, leff, vf: the files <name>.gds,  *)
(* <name>.lef, <name>.v of the working directory; fetched: what            *)
(* download_tt_submission_artifact returned for each source.  dl, gdsT,    *)
(* lefT, vT each hold one function of the script with an input of its      *)
(* input space and the result of calling it.                               *)
(***************************************************************************)
NoFiles == [k \in Sources |-> NoFile]

Idle == [done |-> FALSE]

PipelineVars == <<pc, i, exc, zipf, dirf, gdsf, leff, vf, fetched>>

PipelineIdle ==
  /\ pc = "idle" /\ i = 0 /\ exc = "none"
  /\ zipf = NoFiles /\ dirf = NoFiles
  /\ gdsf = NoFiles /\ leff = NoFiles /\ vf = NoFiles
  /\ fetched = [k \in Sources |-> "pending"]

(***************************************************************************)
(* The pipeline: the module-level loop over the four sources.  The working *)
(* directory starts without any of the files the loop creates.             *)
(***************************************************************************)
Init ==
  /\ pc = "download" /\ i = 1 /\ exc = "none"
  /\ zipf = NoFiles /\ dirf = NoFiles
  /\ gdsf = NoFiles /\ leff = NoFiles /\ vf = NoFiles
  /\ fetched = [k \in Sources |-> "pending"]
  /\ dl = Idle /\ gdsT = Idle /\ lefT = Idle /\ vT = Idle

Crash(e) == pc' = "crashed" /\ exc' = e /\ i' = i

\* download_tt_submission_artifact(giturl, zip_filename); the value returned
\* is dropped by the loop.
Download ==
  /\ pc = "download"
  /\ \E remote \in Remotes :
       LET r == download_tt_submission_artifact(remote)
       IN /\ fetched' = [fetched EXCEPT ![i] = IF r.ret THEN "True" ELSE "False"]
          /\ IF r.saved
             THEN \E a \in Archives : zipf' = [zipf EXCEPT ![i] = File(a)]
             ELSE zipf' = zipf
  /\ pc' = "unzip"
  /\ UNCHANGED <<i, exc, dirf, gdsf, leff, vf, dl, gdsT, lefT, vT>>

\* unzip_tt_submission_artifact(zip_filename, dir_name): returns False when
\* the archive is missing, else extracts it into the directory.
Unzip ==
  /\ pc = "unzip"
  /\ dirf' = IF ~zipf[i].exists THEN dirf ELSE [dirf EXCEPT ![i] = zipf[i]]
  /\ pc' = "grab"
  /\ UNCHANGED <<i, exc, zipf, gdsf, leff, vf, fetched, dl, gdsT, lefT, vT>>

\* grab_relevant_submission_files(dir_name/tt_submission, ".", top_gds_name):
\* os.listdir raises when the directory does not exist.
Copied(files, src) == IF ~src.exists THEN files ELSE [files EXCEPT ![i] = src]

Grab ==
  /\ pc = "grab"
  /\ IF ~dirf[i].exists \/ ~dirf[i].data.sub
     THEN Crash("FileNotFoundError") /\ UNCHANGED <<gdsf, leff, vf>>
     ELSE /\ gdsf' = Copied(gdsf, dirf[i].data.gds)
          /\ leff' = Copied(leff, dirf[i].data.lef)
          /\ vf' = Copied(vf, dirf[i].data.v)
          /\ pc' = "rename_top_cell"
          /\ UNCHANGED <<i, exc>>
  /\ UNCHANGED <<zipf, dirf, fetched, dl, gdsT, lefT, vT>>

\* rename_top_cell(name.gds, name.gds, name), in place.
RenameTopCell ==
  /\ pc = "rename_top_cell"
  /\ IF ~gdsf[i].exists
     THEN Crash("FileNotFoundError") /\ gdsf' = gdsf
     ELSE LET r == rename_top_cell(gdsf[i].data, top_gds_name(i))
          IN IF r.err # "none"
             THEN Crash(r.err) /\ gdsf' = gdsf
             ELSE /\ gdsf' = [gdsf EXCEPT ![i] = r.out]
                  /\ pc' = "update_lef_file"
                  /\ UNCHANGED <<i, exc>>
  /\ UNCHANGED <<zipf, dirf, leff, vf, fetched, dl, gdsT, lefT, vT>>

\* update_lef_file(name.lef, name.lef, name), in place.
UpdateLef ==
  /\ pc = "update_lef_file"
  /\ IF ~leff[i].exists
     THEN Crash("FileNotFoundError") /\ leff' = leff
     ELSE LET r == update_lef_file(leff[i].data, top_gds_name(i))
          IN /\ leff' = [leff EXCEPT ![i] = File(r.out)]
             /\ IF r.err # "none"
                THEN Crash(r.err)
                ELSE pc' = "rename_verilog_module" /\ UNCHANGED <<i, exc>>
  /\ UNCHANGED <<zipf, dirf, gdsf, vf, fetched, dl, gdsT, lefT, vT>>

\* rename_verilog_module(name.v, name.v, name), in place.
RenameVerilog ==
  /\ pc = "rename_verilog_module"
  /\ IF ~vf[i].exists
     THEN Crash("FileNotFoundError") /\ vf' = vf
     ELSE /\ vf' = [vf EXCEPT ![i] =
                     File(rename_verilog_module(vf[i].data, top_gds_name(i)))]
          /\ pc' = "clean_up"
          /\ UNCHANGED <<i, exc>>
  /\ UNCHANGED <<zipf, dirf, gdsf, leff, fetched, dl, gdsT, lefT, vT>>

\* clean_up(dir_name, zip_filename), then the next source.
clean_up_zip_only(dirs, zips) == [dirs |-> dirs, zips |-> [zips EXCEPT ![i] = NoFile]]

clean_up(dirs, zips) ==
  [dirs |-> [dirs EXCEPT ![i] = NoFile], zips |-> [zips EXCEPT ![i] = NoFile]]

CleanUp ==
  /\ pc = "clean_up"
  /\ zipf' = clean_up(dirf, zipf).zips
  /\ dirf' = clean_up(dirf, zipf).dirs
  /\ IF i < NumSources
     THEN pc' = "download" /\ i' = i + 1
     ELSE pc' = "done" /\ i' = i
  /\ UNCHANGED <<exc, gdsf, leff, vf, fetched, dl, gdsT, lefT, vT>>

Next ==
  \/ Download
  \/ Unzip
  \/ Grab
  \/ RenameTopCell
  \/ UpdateLef
  \/ RenameVerilog
  \/ CleanUp

Spec == Init /\ [][Next]_vars

(***************************************************************************)
(* One function at a time, on every input of its input space.              *)
(***************************************************************************)
InitDownload ==
  /\ PipelineIdle
  /\ dl \in {[remote |-> r, done |-> FALSE] : r \in Remotes}
  /\ gdsT = Idle /\ lefT = Idle /\ vT = Idle

CallDownload ==
  /\ ~dl.done
  /\ LET r == download_tt_submission_artifact(dl.remote)
     IN dl' = [remote |-> dl.remote, done |-> TRUE,
               ret |-> r.ret, saved |-> r.saved, trace |-> r.trace]
  /\ UNCHANGED <<PipelineVars, gdsT, lefT, vT>>

SpecDownload == InitDownload /\ [][CallDownload]_vars

\* rename_top_cell in place on the same file, up to MaxApply times.
InitGds ==
  /\ PipelineIdle
  /\ \E ns \in NameSeqs : \E b \in [DOMAIN ns -> CellBodies(ns)] :
       gdsT = [orig |-> GdsFile(ns, b), file |-> GdsFile(ns, b),
               name |-> top_gds_name(1), runs |-> 0, err |-> "none"]
  /\ dl = Idle /\ lefT = Idle /\ vT = Idle

CallRenameTopCell ==
  /\ gdsT.runs < MaxApply
  /\ LET r == rename_top_cell(gdsT.file, gdsT.name)
     IN gdsT' = [orig |-> gdsT.orig, name |-> gdsT.name, runs |-> gdsT.runs + 1,
                 before |-> gdsT.file,
                 file |-> IF r.out.exists THEN r.out.data ELSE gdsT.file,
                 written |-> r.out.exists,
                 err |-> r.err, prev_err |-> gdsT.err,
                 sel |-> r.sel, lib0 |-> r.lib0, lib1 |-> r.lib1]
  /\ UNCHANGED <<PipelineVars, dl, lefT, vT>>

SpecGds == InitGds /\ [][CallRenameTopCell]_vars

InitLef ==
  /\ PipelineIdle
  /\ lefT \in {[in |-> f, name |-> top_gds_name(1), done |-> FALSE] : f \in LefFiles}
  /\ dl = Idle /\ gdsT = Idle /\ vT = Idle

CallUpdateLef ==
  /\ ~lefT.done
  /\ LET r == update_lef_file(lefT.in, lefT.name)
     IN lefT' = [in |-> lefT.in, name |-> lefT.name, done |-> TRUE,
                 out |-> r.out, err |-> r.err]
  /\ UNCHANGED <<PipelineVars, dl, gdsT, vT>>

SpecLef == InitLef /\ [][CallUpdateLef]_vars

InitVerilog ==
  /\ PipelineIdle
  /\ vT \in {[in |-> f, name |-> top_gds_name(1), done |-> FALSE] : f \in VerilogFiles}
  /\ dl = Idle /\ gdsT = Idle /\ lefT = Idle

CallRenameVerilog ==
  /\ ~vT.done
  /\ vT' = [in |-> vT.in, name |-> vT.name, done |-> TRUE,
            out |-> rename_verilog_module(vT.in, vT.name)]
  /\ UNCHANGED <<PipelineVars, dl, gdsT, lefT>>

SpecVerilog == InitVerilog /\ [][CallRenameVerilog]_vars

(***************************************************************************)
(* Properties.                                                             *)
(***************************************************************************)

\* C1: a retrieval failure on one source does not stop the run: the loop is
\* never ended by an exception at a source whose download returned False.
C1_RetrievalFailureDoesNotStopRun == ~(pc = "crashed" /\ fetched[i] = "False")

\* ---- rename_verilog_module ----
Tokens(line) == split(line)
IsModuleLine(line) == Tokens(line) # <<>> /\ Tokens(line)[1] = KW_module
ModuleLines(file) == {k \in DOMAIN file : IsModuleLine(file[k])}
FirstModuleLine(file) == CHOOSE k \in ModuleLines(file) : \A j \in ModuleLines(file) : k <= j

\* C2: in a file with two or more module lines, every line but the first
\* module line (the later module lines included) is written unchanged.
C2_OnlyFirstModuleLineAltered ==
  (vT.done /\ Cardinality(ModuleLines(vT.in)) >= 2) =>
     /\ Len(vT.out) = Len(vT.in)
     /\ \A k \in DOMAIN vT.in : k # FirstModuleLine(vT.in) => vT.out[k] = vT.in[k]

\* ---- rename_top_cell ----
\* The cells of a file whose name is the target of no reference of the file.
Unreferenced(file) ==
  {k \in DOMAIN file :
     \A c \in DOMAIN file : \A r \in DOMAIN file[c].refs : file[c].refs[r] # file[k].name}
DistinctNames(file) == \A x, y \in DOMAIN file : x # y => file[x].name # file[y].name
Called == gdsT.runs >= 1
\* A well-formed hierarchy: distinct cell names and no cycle of references.
Acyclic(file) ==
  \E rank \in [DOMAIN file -> DOMAIN file] :
     \A c, k \in DOMAIN file :
        (\E r \in DOMAIN file[c].refs : file[c].refs[r] = file[k].name) => rank[k] < rank[c]
WellFormed(file) == DistinctNames(file) /\ Acyclic(file)

\* C3: on a hierarchy (cells of distinct names) with at least one
\* unreferenced cell the call does not fail and selects the first
\* unreferenced cell in the order of the library; with exactly one
\* unreferenced cell that is the cell selected.
C3_SelectsFirstUnreferenced ==
  (Called /\ DistinctNames(gdsT.before) /\ Unreferenced(gdsT.before) # {}) =>
     /\ gdsT.err = "none"
     /\ gdsT.sel \in Unreferenced(gdsT.before)
     /\ \A k \in Unreferenced(gdsT.before) : gdsT.sel <= k

C3_Witness ==
  /\ Called /\ DistinctNames(gdsT.before)
  /\ Cardinality(Unreferenced(gdsT.before)) >= 2
  /\ gdsT.err = "none" /\ gdsT.sel \in Unreferenced(gdsT.before)

\* C4: when every cell is the target of a reference the call fails with the
\* no-top-cell error, no cell of the library has been renamed and no file
\* has been written.
C4_NoTopCellFails ==
  (Called /\ Unreferenced(gdsT.before) = {}) =>
     /\ gdsT.err = "ValueError"
     /\ ~gdsT.written
     /\ gdsT.lib1 = gdsT.lib0
     /\ gdsT.file = gdsT.before

C4_Witness ==
  Called /\ Unreferenced(gdsT.before) = {} /\ gdsT.err = "ValueError" /\ Len(gdsT.before) >= 2

\* The positions of the cells a name denotes in a file.
Denotes(file, n) == {k \in DOMAIN file : file[k].name = n}

\* C5: the call changes no shape count, no reference count, no cell a
\* reference points to, and no name but that of the selected top cell
\* (stated for the first call on a well-formed hierarchy).
C5_OnlyTopNameChanges ==
  (gdsT.runs = 1 /\ WellFormed(gdsT.orig) /\ gdsT.written) =>
     /\ Len(gdsT.file) = Len(gdsT.before)
     /\ \A k \in DOMAIN gdsT.before :
          /\ gdsT.file[k].shapes = gdsT.before[k].shapes
          /\ Len(gdsT.file[k].refs) = Len(gdsT.before[k].refs)
          /\ k # gdsT.sel => gdsT.file[k].name = gdsT.before[k].name
          /\ \A r \in DOMAIN gdsT.before[k].refs :
               Denotes(gdsT.file, gdsT.file[k].refs[r])
                 = Denotes(gdsT.before, gdsT.before[k].refs[r])

\* C6: applying the rename to its own output gives what one application
\* gave, the same outcome and the same file (stated for the calls that start
\* from a well-formed hierarchy).
C6_Idempotent ==
  (gdsT.runs >= 2 /\ WellFormed(gdsT.orig)) =>
     (gdsT.err = gdsT.prev_err /\ gdsT.file = gdsT.before)

\* ---- update_lef_file ----
IsMacroLine(line) == Len(Tokens(line)) >= 2 /\ Tokens(line)[1] = KW_MACRO
MacroLines(file) == {k \in DOMAIN file : IsMacroLine(file[k])}
\* The macro name captured before line k: that of the last MACRO line above it.
Captured(file, k) ==
  LET above == {m \in MacroLines(file) : m < k}
  IN IF above = {} THEN <<>>
     ELSE Tokens(file[CHOOSE m \in above : \A j \in above : j <= m])[2]
\* An END or FOREIGN line carrying the captured name.
Carries(file, k) ==
  /\ Len(Tokens(file[k])) >= 2
  /\ Tokens(file[k])[1] \in {KW_END, KW_FOREIGN}
  /\ Tokens(file[k])[2] = Captured(file, k)

\* C7: in a file with one MACRO line, the name of the MACRO line and the name
\* of every later END or FOREIGN line carrying the old name are the new name
\* in the output (stated for the calls that complete).
C7_MacroRenamedConsistently ==
  (lefT.done /\ lefT.err = "none" /\ Cardinality(MacroLines(lefT.in)) = 1) =>
     \A k \in DOMAIN lefT.in :
        (IsMacroLine(lefT.in[k]) \/ Carries(lefT.in, k)) =>
           /\ Len(Tokens(lefT.out[k])) >= 2
           /\ Tokens(lefT.out[k])[2] = lefT.name

\* C8: the call completes on every input, writes every other line unchanged
\* at its position, and copies a file without MACRO line unchanged.
C8_OtherLinesUnchanged ==
  lefT.done =>
     /\ lefT.err = "none"
     /\ Len(lefT.out) = Len(lefT.in)
     /\ \A k \in DOMAIN lefT.in :
          (~IsMacroLine(lefT.in[k]) /\ ~Carries(lefT.in, k)) => lefT.out[k] = lefT.in[k]
     /\ MacroLines(lefT.in) = {} => lefT.out = lefT.in

\* ---- download_tt_submission_artifact ----
Failed == ~dl.ret /\ ~dl.saved
HasSubmission(run) == \E a \in DOMAIN run.artifacts : run.artifacts[a].name = ARTIFACT_NAME
NoMatchingArtifact(remote) == \A k \in DOMAIN remote.runs : ~HasSubmission(remote.runs[k])

\* C9 as stated: the call fails when the locator is malformed, no runs exist,
\* no matching artifact exists, or any request made got a non-success status.
C9_AnyNonSuccessFails ==
  dl.done =>
     ((\/ ~dl.remote.url_ok
       \/ dl.remote.runs = <<>>
       \/ NoMatchingArtifact(dl.remote)
       \/ \E t \in DOMAIN dl.trace : dl.trace[t] # HTTP_OK) => Failed)

\* The runs whose artifact listing succeeded and holds a tt_submission artifact.
Found(remote) ==
  {k \in DOMAIN remote.runs :
     remote.runs[k].status = HTTP_OK /\ HasSubmission(remote.runs[k])}
\* The status of downloading the first tt_submission artifact of run k.
ArchiveStatus(run) ==
  LET S == {a \in DOMAIN run.artifacts : run.artifacts[a].name = ARTIFACT_NAME}
  IN run.artifacts[CHOOSE a \in S : \A b \in S : a <= b].status
FirstFound(remote) == CHOOSE k \in Found(remote) : \A j \in Found(remote) : k <= j

\* C9 amended: the call fails when the locator is malformed, listing the runs
\* fails, no runs exist, no run whose artifacts could be listed has a matching
\* artifact, or the download of the first matching artifact found fails; a
\* failed listing of one run's artifacts only skips that run.
C9_FailsUnlessFirstFoundDownloads ==
  dl.done =>
     /\ (\/ ~dl.remote.url_ok
         \/ dl.remote.runs_status # HTTP_OK
         \/ dl.remote.runs = <<>>
         \/ Found(dl.remote) = {}
         \/ ArchiveStatus(dl.remote.runs[FirstFound(dl.remote)]) # HTTP_OK) => Failed
     /\ dl.saved => dl.ret

C9_Witness ==
  /\ dl.done /\ dl.remote.url_ok /\ dl.remote.runs_status = HTTP_OK
  /\ Len(dl.remote.runs) >= 2
  /\ dl.remote.runs[1].status # HTTP_OK
  /\ Found(dl.remote) # {}
  /\ ArchiveStatus(dl.remote.runs[FirstFound(dl.remote)]) # HTTP_OK
  /\ Failed

\* ---- the loop ----
StepAfter(p) ==
  CASE p = "download" -> {"unzip"}
    [] p = "unzip" -> {"grab"}
    [] p = "grab" -> {"rename_top_cell"}
    [] p = "rename_top_cell" -> {"update_lef_file"}
    [] p = "update_lef_file" -> {"rename_verilog_module"}
    [] p = "rename_verilog_module" -> {"clean_up"}
    [] p = "clean_up" -> {"download", "done"}
    [] OTHER -> {}

NoIntermediateState(S) == \A j \in S : ~zipf[j].exists /\ ~dirf[j].exists

\* C10: the sources are processed one at a time, each in the order fetch,
\* extract, select files, rename, clean up; when a source's iteration starts
\* and after the last one, no archive and no extraction directory of an
\* earlier source exists.
C10_SequentialAndCleaned ==
  /\ [](pc = "download" => NoIntermediateState(1..(i - 1)))
  /\ [](pc = "done" => NoIntermediateState(Sources))
  /\ [][/\ pc' \in StepAfter(pc) \cup {"crashed"}
        /\ i' = IF pc = "clean_up" /\ pc' = "download" THEN i + 1 ELSE i]_vars

C10_Witness ==
  /\ pc = "done" /\ i = NumSources
  /\ \A j \in Sources : fetched[j] = "True" /\ gdsf[j].exists /\ leff[j].exists /\ vf[j].exists

====
